---- MODULE Spec2Model ----
(***************************************************************************)
(* A model of train_b.py (WurstCore): the setup hooks, the training step   *)
(* (forward_pass, backward_pass) and the pyramid noise generator.          *)
(*                                                                         *)
(* Two specifications share the module:                                    *)
(*   Spec         the run: setup_extras_pre, setup_models,                 *)
(*                setup_optimizers, setup_schedulers, then the training    *)
(*                loop calling forward_pass and backward_pass;             *)
(*   SpecPyramid  one call of _pyramid_noise on an epsilon of height H and *)
(*                width W, for every H, W, size_range and levels in the    *)
(*                bounds.                                                  *)
(***************************************************************************)
EXTENDS Integers, Sequences, FiniteSets

(* ------------------------------ bounds -------------------------------- *)

\* Largest height and width of the epsilon handed to _pyramid_noise.
MaxDim == 8
\* Largest value of the levels argument of _pyramid_noise.
MaxLevels == 4
\* Largest boundary of a size_range handed to _pyramid_noise.
MaxRange == 4

\* Largest info.total_steps a run is followed to.
MaxSteps == 2
\* Largest config.grad_accum_steps.
MaxGradAccum == 2
\* Largest number of buckets of an adaptive-loss snapshot.
MaxBuckets == 2

\* Python's None. A value that may be None is a tuple: None, or <<v>> holding v
\* (a size_range is None or the pair <<lo, hi>>).
None == <<>>

VARIABLES
    \* _pyramid_noise: the position in the call, its arguments and its locals
    pn_pc,          \* "call" | "for" | "rescale" | "done" | "raised" | "off"
    pn_args,        \* [H, W, size_range, levels]: epsilon.size(-2), epsilon.size(-1), ...
    level_i,        \* the loop variable i
    multipliers,    \* the list multipliers; 0.75 ** i is kept as the pair <<3^i, 4^i>>
    epsilon,        \* the noise as the sequence of the fields summed into it
    pn_visited,     \* the values i has taken, in order
    pn_divisor      \* the square of the divisor of line 228, over PnDenominator

pn_vars == <<pn_pc, pn_args, level_i, multipliers, epsilon, pn_visited, pn_divisor>>

VARIABLES
    \* the run
    pc,             \* the position of the run (see Next)
    config,         \* self.config, frozen
    info,           \* self.info: [total_steps, adaptive_loss]
    error,          \* None, or <<e>> for the exception e that ended the run
    gdf,            \* extras.gdf: None or <<[loss_weight |-> ...]>>
    models,         \* None or <<[generator |-> ..., generator_ema |-> ...]>>
    loaded,         \* the state dicts loaded so far, in order
    optimizers,     \* None or <<the OptimizersDTO as a function of its keys>>
    schedulers,     \* None or <<the SchedulersDTO as a function of its keys>>
    params,         \* the parameters of generator and generator_ema (versions)
    grads,          \* the .grad of the parameters of generator and generator_ema
    calls,          \* how often each hook has been entered
    \* forward_pass
    fp_calls,       \* the calls of the last forward_pass, in order
    graph,          \* the models whose parameters the last loss depends on
    \* backward_pass
    bp_update,      \* the update argument of the current call
    bp_todo,        \* the keys the current for loop has still to visit
    bp_trace,       \* the effects of the current call, in order
    grad_norm,      \* the local grad_norm: "unbound" or "norm"
    bp_pre,         \* the state the current call was entered in
    micro           \* the iterations since the last update

run_vars == <<pc, config, info, error, gdf, models, loaded, optimizers, schedulers,
              params, grads, calls, fp_calls, graph, bp_update, bp_todo, bp_trace,
              grad_norm, bp_pre, micro>>

vars == <<pn_vars, run_vars>>

(* --------------------------- _pyramid_noise --------------------------- *)

RECURSIVE Pow(_, _)
Pow(b, e) == IF e = 0 THEN 1 ELSE b * Pow(b, e - 1)

\* A dimension shrunk by 2^i: d // (2**i).
Shrunk(d, i) == d \div Pow(2, i)

\* m = 0.75 ** i, as the fraction 3^i / 4^i.
Multiplier(i) == <<Pow(3, i), Pow(4, i)>>

\* The shape of the offset of level i: line 221 reads epsilon.size(-2) for both.
LevelH(args, i) == Shrunk(args.H, i)
LevelW(args, i) == Shrunk(args.H, i)

\* The test of line 222.
InSizeRange(size_range, h, w) ==
    \/ size_range = None
    \/ (size_range[1] <= h /\ h <= size_range[2])
    \/ (size_range[1] <= w /\ w <= size_range[2])

\* Mutant: the multiplier appended outside the test of line 222.
NextMultipliersUnconditional(ms, m, added) == Append(ms, m)

\* Line 225, under the test of line 222: the multiplier of a level is appended
\* when its noise is added.
NextMultipliers(ms, m, added) == IF added THEN Append(ms, m) ELSE ms

\* The denominator all squares of multipliers of one call are brought to.
PnDenominator(args) == Pow(16, args.levels)

RECURSIVE SumSquares(_, _)
\* sum([m**2 for m in ms]), as a numerator over the denominator den.
SumSquares(ms, den) ==
    IF ms = <<>> THEN 0
    ELSE (ms[1][1] * ms[1][1]) * (den \div (ms[1][2] * ms[1][2]))
         + SumSquares(Tail(ms), den)

SizeRanges ==
    {None} \cup {<<lo, hi>> : lo \in 1..MaxRange, hi \in 1..MaxRange}

PyramidArgs ==
    [H : 1..MaxDim, W : 1..MaxDim, size_range : SizeRanges, levels : 1..MaxLevels]

\* Lines 216-217: epsilon = epsilon.clone(); multipliers = [1].
PyramidEnter ==
    /\ pn_pc = "call"
    /\ epsilon' = <<[level |-> 0, h |-> pn_args.H, w |-> pn_args.W, m |-> <<1, 1>>]>>
    /\ multipliers' = <<<<1, 1>>>>
    /\ level_i' = 1
    /\ pn_visited' = <<>>
    /\ pn_pc' = "for"
    /\ UNCHANGED <<pn_args, pn_divisor, run_vars>>

\* Lines 218-227: one iteration of for i in range(1, levels).
PyramidLevel ==
    /\ pn_pc = "for"
    /\ level_i < pn_args.levels
    /\ LET i == level_i
           m == Multiplier(i)
           h == LevelH(pn_args, i)
           w == LevelW(pn_args, i)
           add == InSizeRange(pn_args.size_range, h, w)
           \* interpolate rejects an offset with an empty spatial dimension
           empty == add /\ (h = 0 \/ w = 0)
       IN /\ pn_visited' = Append(pn_visited, i)
          /\ epsilon' = IF add /\ ~empty
                        THEN Append(epsilon, [level |-> i, h |-> h, w |-> w, m |-> m])
                        ELSE epsilon
          /\ multipliers' = NextMultipliers(multipliers, m, add /\ ~empty)
          /\ pn_pc' = IF empty THEN "raised"
                      ELSE IF h <= 1 \/ w <= 1 THEN "rescale"
                      ELSE "for"
          /\ level_i' = IF ~empty /\ ~(h <= 1 \/ w <= 1) THEN i + 1 ELSE i
    /\ UNCHANGED <<pn_args, pn_divisor, run_vars>>

\* Line 218: range(1, levels) is exhausted.
PyramidLoopEnd ==
    /\ pn_pc = "for"
    /\ level_i >= pn_args.levels
    /\ pn_pc' = "rescale"
    /\ UNCHANGED <<pn_args, level_i, multipliers, epsilon, pn_visited, pn_divisor,
                   run_vars>>

\* Lines 228-230: epsilon / sum([m**2 for m in multipliers])**0.5, returned.
PyramidReturn ==
    /\ pn_pc = "rescale"
    /\ pn_divisor' = SumSquares(multipliers, PnDenominator(pn_args))
    /\ pn_pc' = "done"
    /\ UNCHANGED <<pn_args, level_i, multipliers, epsilon, pn_visited, run_vars>>


(* ------------------------------- the run ------------------------------ *)

\* A float is an integer: the number of the double it is on a grid of doubles of
\* which every second one, the even numbers, is a float32 as well.
\* torch.tensor of a Python float rounds it to the nearest float32.
ToFloat32(x) == 2 * ((x + 1) \div 2)

\* torch.tensor(xs) of a list of Python floats: a float32 tensor, element by element.
TorchTensor(xs) == [k \in 1..Len(xs) |-> ToFloat32(xs[k])]

\* The float32 values bucket boundaries are drawn from.
F32Values == {2 * k : k \in 0..MaxBuckets}

\* The float32 values bucket losses are drawn from.
LossValues == {2, 4}

StrictlyIncreasing(r) == \A k \in 1..(Len(r) - 1) : r[k] < r[k + 1]

\* The adaptive-loss snapshots a checkpoint can hold: the tolist() of the float32
\* tensors bucket_ranges (strictly increasing) and bucket_losses (one per bucket).
Snapshots ==
    UNION {{[bucket_ranges |-> r, bucket_losses |-> l] :
               r \in {x \in [1..(b + 1) -> F32Values] : StrictlyIncreasing(x)},
               l \in [1..b -> LossValues]} : b \in 1..MaxBuckets}

\* The bucket state of a freshly constructed AdaptiveLossWeight().
FreshBuckets == [bucket_ranges |-> <<0, 2>>, bucket_losses |-> <<2>>]

\* Line 88: AdaptiveLossWeight() if config.adaptive_loss_weight is True else
\* P2LossWeight(); a P2LossWeight has no bucket attributes.
NewLossWeight(adaptive_loss_weight) ==
    IF adaptive_loss_weight = TRUE
    THEN [kind |-> "AdaptiveLossWeight",
          bucket_ranges |-> <<FreshBuckets.bucket_ranges>>,
          bucket_losses |-> <<FreshBuckets.bucket_losses>>]
    ELSE [kind |-> "P2LossWeight", bucket_ranges |-> None, bucket_losses |-> None]

\* Mutant: the two keys of the snapshot read the wrong way round.
RestoredLossWeightSwapped(loss_weight, adaptive_loss) ==
    IF adaptive_loss # None
    THEN [loss_weight EXCEPT
             !.bucket_ranges = <<TorchTensor(adaptive_loss[1].bucket_losses)>>,
             !.bucket_losses = <<TorchTensor(adaptive_loss[1].bucket_ranges)>>]
    ELSE loss_weight

\* Lines 92-94: the snapshot of RunInfo, when there is one, set on the policy.
RestoredLossWeight(loss_weight, adaptive_loss) ==
    IF adaptive_loss # None
    THEN [loss_weight EXCEPT
             !.bucket_ranges = <<TorchTensor(adaptive_loss[1].bucket_ranges)>>,
             !.bucket_losses = <<TorchTensor(adaptive_loss[1].bucket_losses)>>]
    ELSE loss_weight

\* Mutant: every version that is not '3B' taken for '700M', as line 182 does.
VersionIsKnownLax(model_version) == TRUE

\* Line 157, 163: the model versions setup_models knows.
VersionIsKnown(model_version) == model_version = "3B" \/ model_version = "700M"

\* Lines 158, 164: the class of the generator.
StageB(model_version) == IF model_version = "3B" THEN "StageB_3B" ELSE "StageB_700M"

\* Lines 160, 166: the class of generator_ema.
EmaStageB(model_version) == IF model_version = "3B" THEN "StageB_3B" ELSE "StageB_700M"

\* Mutant: line 179 left out.
EmaRequiresGradDefault == TRUE

\* Line 179: generator_ema.eval().requires_grad_(False).
EmaRequiresGrad == FALSE

\* Line 206: the model whose parameters the optimizer is given.
OptimizedModel == "generator"

ModelNames == {"generator", "generator_ema"}

NoGrad == [accum |-> 0, max_norm |-> None]

Configs ==
    [model_version : {"3B", "700M", "3BB"},
     ema_start_iters : {None, <<1>>},
     generator_checkpoint_path : {None, <<"generator.safetensors">>},
     adaptive_loss_weight : BOOLEAN,
     use_fsdp : BOOLEAN,
     grad_accum_steps : 1..MaxGradAccum]

\* RunInfo at start: fresh, or restored from a checkpoint.
Infos ==
    {[total_steps |-> 0, adaptive_loss |-> None]}
    \cup [total_steps : {1}, adaptive_loss : {None} \cup {<<sn>> : sn \in Snapshots}]

Enter(hook) == calls' = [calls EXCEPT ![hook] = @ + 1]

\* Lines 83-114: setup_extras_pre.
SetupExtrasPre ==
    /\ pc = "start"
    /\ Enter("setup_extras_pre")
    /\ gdf' = <<[loss_weight |->
                   RestoredLossWeight(NewLossWeight(config.adaptive_loss_weight),
                                      info.adaptive_loss)]>>
    /\ pc' = "extras"
    /\ UNCHANGED <<config, info, error, models, loaded, optimizers, schedulers, params,
                   grads, fp_calls, graph, bp_update, bp_todo, bp_trace, grad_norm,
                   bp_pre, micro, pn_vars>>

\* Lines 141-203: setup_models.
SetupModels ==
    /\ pc = "extras"
    /\ Enter("setup_models")
    /\ LET frozen == <<"effnet_checkpoint_path", "stage_a_checkpoint_path">>
           has_ema == config.ema_start_iters # None
           generator == [class |-> StageB(config.model_version),
                         requires_grad |-> TRUE, fsdp |-> config.use_fsdp]
           generator_ema == [class |-> EmaStageB(config.model_version),
                             requires_grad |-> EmaRequiresGrad,
                             fsdp |-> config.use_fsdp]
           generator_loads ==
               (IF config.generator_checkpoint_path # None
                THEN <<"generator_checkpoint_path">> ELSE <<>>)
               \o <<"load_model:generator">>
           ema_loads ==
               IF has_ema THEN <<"generator.state_dict", "load_model:generator_ema">>
               ELSE <<>>
       IN IF ~VersionIsKnown(config.model_version)
          THEN /\ error' = <<"ValueError">>
               /\ pc' = "aborted"
               /\ loaded' = loaded \o frozen
               /\ UNCHANGED models
          ELSE /\ models' = <<[generator |-> generator,
                               generator_ema |->
                                   IF has_ema THEN <<generator_ema>> ELSE None]>>
               /\ loaded' = loaded \o frozen \o generator_loads \o ema_loads
               /\ pc' = "models"
               /\ UNCHANGED error
    /\ UNCHANGED <<config, info, gdf, optimizers, schedulers, params, grads, fp_calls,
                   graph, bp_update, bp_todo, bp_trace, grad_norm, bp_pre, micro,
                   pn_vars>>

\* Lines 205-208: setup_optimizers.
SetupOptimizers ==
    /\ pc = "models"
    /\ Enter("setup_optimizers")
    /\ optimizers' = <<[k \in {"generator"} |->
                          [class |-> "AdamW", params_of |-> OptimizedModel,
                           n_steps |-> 0]]>>
    /\ loaded' = Append(loaded, "load_optimizer:generator_optim")
    /\ pc' = "optimizers"
    /\ UNCHANGED <<config, info, error, gdf, models, schedulers, params, grads,
                   fp_calls, graph, bp_update, bp_todo, bp_trace, grad_norm, bp_pre,
                   micro, pn_vars>>

\* Lines 210-213: setup_schedulers.
SetupSchedulers ==
    /\ pc = "optimizers"
    /\ Enter("setup_schedulers")
    /\ schedulers' = <<[k \in {"generator"} |->
                          [class |-> "GradualWarmupScheduler", optimizer |-> k,
                           last_epoch |-> info.total_steps]]>>
    /\ pc' = "loop"
    /\ UNCHANGED <<config, info, error, gdf, models, loaded, optimizers, params, grads,
                   fp_calls, graph, bp_update, bp_todo, bp_trace, grad_norm, bp_pre,
                   micro, pn_vars>>

\* The run variables while SpecPyramid runs _pyramid_noise on its own.
RunOff ==
    /\ pc = "off"
    /\ config = [model_version |-> "3B", ema_start_iters |-> None,
                 generator_checkpoint_path |-> None, adaptive_loss_weight |-> FALSE,
                 use_fsdp |-> FALSE, grad_accum_steps |-> 1]
    /\ info = [total_steps |-> 0, adaptive_loss |-> None]
    /\ error = None
    /\ gdf = None
    /\ models = None
    /\ loaded = <<>>
    /\ optimizers = None
    /\ schedulers = None
    /\ params = [m \in ModelNames |-> 0]
    /\ grads = [m \in ModelNames |-> NoGrad]
    /\ calls = [h \in {"setup_extras_pre", "setup_models", "setup_optimizers",
                       "setup_schedulers", "forward_pass", "backward_pass"} |-> 0]
    /\ fp_calls = <<>>
    /\ graph = {}
    /\ bp_update = FALSE
    /\ bp_todo = {}
    /\ bp_trace = <<>>
    /\ grad_norm = "unbound"
    /\ bp_pre = None
    /\ micro = 0

\* The variables of _pyramid_noise while Spec follows the run.
PyramidOff ==
    /\ pn_pc = "off"
    /\ pn_args = [H |-> 1, W |-> 1, size_range |-> None, levels |-> 1]
    /\ level_i = 0
    /\ multipliers = <<>>
    /\ epsilon = <<>>
    /\ pn_visited = <<>>
    /\ pn_divisor = 0

(* ---------------------------- forward_pass ---------------------------- *)

Call(caller, callee, fn) == [caller |-> caller, callee |-> callee, fn |-> fn]

\* The five diffusion components the GDF is composed of (lines 84-89).
DiffusionComponents ==
    {"schedule", "input_scaler", "target", "noise_cond", "loss_weight"}

\* What gdf.diffuse calls: the schedule, the scaler, the target, the noise
\* conditioning and the loss weight.
GdfDiffuseCalls ==
    <<Call("gdf", "schedule", "__call__"),
      Call("gdf", "input_scaler", "__call__"),
      Call("gdf", "target", "__call__"),
      Call("gdf", "noise_cond", "__call__"),
      Call("gdf", "loss_weight", "__call__")>>

\* Line 248: isinstance(extras.gdf.loss_weight, AdaptiveLossWeight).
UpdatesBuckets(loss_weight) == loss_weight.kind = "AdaptiveLossWeight"

\* Mutant: update_buckets called without the isinstance test of line 248.
ForwardPassCallsAlwaysUpdate(loss_weight) ==
    <<Call("forward_pass", "data.iterator", "next"),
      Call("forward_pass", "self", "get_conditions"),
      Call("forward_pass", "self", "encode_latents"),
      Call("forward_pass", "torch", "randn_like"),
      Call("forward_pass", "pyramid_noise", "_pyramid_noise"),
      Call("forward_pass", "gdf", "diffuse")>>
    \o GdfDiffuseCalls
    \o <<Call("forward_pass", "generator", "__call__"),
         Call("forward_pass", "torch", "mse_loss"),
         Call("forward_pass", "loss_weight", "update_buckets")>>

\* Lines 234-249: the calls forward_pass makes, in order.
ForwardPassCalls(loss_weight) ==
    <<Call("forward_pass", "data.iterator", "next"),
      Call("forward_pass", "self", "get_conditions"),
      Call("forward_pass", "self", "encode_latents"),
      Call("forward_pass", "torch", "randn_like"),
      Call("forward_pass", "pyramid_noise", "_pyramid_noise"),
      Call("forward_pass", "gdf", "diffuse")>>
    \o GdfDiffuseCalls
    \o <<Call("forward_pass", "generator", "__call__"),
         Call("forward_pass", "torch", "mse_loss")>>
    \o (IF UpdatesBuckets(loss_weight)
        THEN <<Call("forward_pass", "loss_weight", "update_buckets")>>
        ELSE <<>>)

\* update_buckets: the accumulator of the bucket j the sample falls in is smoothed
\* towards the observed loss.
UpdateBuckets(loss_weight, j, observed) ==
    [loss_weight EXCEPT
        !.bucket_losses = <<[@[1] EXCEPT ![j] = ToFloat32((@ + observed) \div 2)]>>]

\* Line 244: the models called with gradient tracking, outside torch.no_grad().
ForwardGraph(ms) == {m \in {"generator"} : ms[m].requires_grad}

\* Lines 233-251: forward_pass.
ForwardPass ==
    /\ pc = "loop"
    /\ info.total_steps < MaxSteps
    /\ Enter("forward_pass")
    /\ LET loss_weight == gdf[1].loss_weight
       IN /\ fp_calls' = ForwardPassCalls(loss_weight)
          /\ IF UpdatesBuckets(loss_weight)
             THEN \E j \in 1..Len(loss_weight.bucket_losses[1]), observed \in LossValues :
                      gdf' = <<[loss_weight |-> UpdateBuckets(loss_weight, j, observed)]>>
             ELSE UNCHANGED gdf
    /\ graph' = ForwardGraph(models[1])
    /\ pc' = "forward_done"
    /\ UNCHANGED <<config, info, error, models, loaded, optimizers, schedulers, params,
                   grads, bp_update, bp_todo, bp_trace, grad_norm, bp_pre, micro,
                   pn_vars>>

(* ---------------------------- backward_pass --------------------------- *)

\* Line 256: the max_norm of clip_grad_norm_.
ClipMaxNorm == 1

\* Mutant: the update branch taken whatever update is.
BpFirstAlwaysUpdate(update) == "bp_backward"

\* Line 254: the first statement of the branch taken.
BpFirst(update) == IF update THEN "bp_backward" ELSE "bp_no_sync"

\* Mutant: the gradients zeroed before the optimizers and schedulers step.
BpAfterZeroFirst(at) ==
    CASE at = "bp_backward" -> "bp_clip"
      [] at = "bp_clip" -> "bp_zero_grad"
      [] at = "bp_zero_grad" -> "bp_optimizers"
      [] at = "bp_optimizers" -> "bp_schedulers"
      [] at = "bp_schedulers" -> "bp_total_steps"
      [] at = "bp_total_steps" -> "bp_return"
      [] at = "bp_no_sync" -> "bp_return"

\* Lines 255-265, 270: the statement after each statement of the update branch.
BpAfter(at) ==
    CASE at = "bp_backward" -> "bp_clip"
      [] at = "bp_clip" -> "bp_optimizers"
      [] at = "bp_optimizers" -> "bp_schedulers"
      [] at = "bp_schedulers" -> "bp_zero_grad"
      [] at = "bp_zero_grad" -> "bp_total_steps"
      [] at = "bp_total_steps" -> "bp_return"
      [] at = "bp_no_sync" -> "bp_return"

\* Lines 258, 261, 263: the keys a for loop goes through.
BpKeys(at) ==
    CASE at \in {"bp_optimizers", "bp_zero_grad"} -> DOMAIN optimizers[1]
      [] at = "bp_schedulers" -> DOMAIN schedulers[1]
      [] OTHER -> {}

\* loss_adjusted.backward(): a gradient is accumulated on every model of the graph.
Backward(g) ==
    [m \in ModelNames |->
        IF m \in graph THEN [g[m] EXCEPT !.accum = @ + 1] ELSE g[m]]

\* The training loop: backward_pass is called with update true on the last of
\* grad_accum_steps consecutive iterations.
BackwardCall ==
    /\ pc = "forward_done"
    /\ Enter("backward_pass")
    /\ LET update == (micro + 1 >= config.grad_accum_steps)
       IN /\ bp_update' = update
          /\ pc' = BpFirst(update)
    /\ bp_trace' = <<>>
    /\ bp_todo' = {}
    /\ grad_norm' = "unbound"
    /\ bp_pre' = <<[total_steps |-> info.total_steps, optimizers |-> optimizers,
                    schedulers |-> schedulers, params |-> params, grads |-> grads]>>
    /\ UNCHANGED <<config, info, error, gdf, models, loaded, optimizers, schedulers,
                   params, grads, fp_calls, graph, micro, pn_vars>>

\* Line 255: loss_adjusted.backward().
BpBackward ==
    /\ pc = "bp_backward"
    /\ grads' = Backward(grads)
    /\ bp_trace' = Append(bp_trace, <<"backward", "sync">>)
    /\ pc' = BpAfter("bp_backward")
    /\ UNCHANGED <<config, info, error, gdf, models, loaded, optimizers, schedulers,
                   params, calls, fp_calls, graph, bp_update, bp_todo, grad_norm,
                   bp_pre, micro, pn_vars>>

\* Line 256: grad_norm = clip_grad_norm_(models.generator.parameters(), 1.0).
BpClip ==
    /\ pc = "bp_clip"
    /\ grads' = [grads EXCEPT !["generator"].max_norm = <<ClipMaxNorm>>]
    /\ grad_norm' = "norm"
    /\ bp_trace' = Append(bp_trace, <<"clip_grad_norm_", "generator">>)
    /\ pc' = BpAfter("bp_clip")
    /\ bp_todo' = BpKeys(BpAfter("bp_clip"))
    /\ UNCHANGED <<config, info, error, gdf, models, loaded, optimizers, schedulers,
                   params, calls, fp_calls, graph, bp_update, bp_pre, micro, pn_vars>>

\* The end of one iteration of a for loop over keys: on to the next key, or to
\* the statement after the loop.
BpLoop(at, k) ==
    LET rest == bp_todo \ {k}
    IN /\ pc' = IF rest = {} THEN BpAfter(at) ELSE at
       /\ bp_todo' = IF rest = {} THEN BpKeys(BpAfter(at)) ELSE rest

\* Lines 258-259: optimizers_dict[k].step().
BpOptimizerStep ==
    /\ pc = "bp_optimizers"
    /\ \E k \in bp_todo :
          /\ optimizers' = <<[optimizers[1] EXCEPT ![k].n_steps = @ + 1]>>
          /\ params' = [params EXCEPT ![optimizers[1][k].params_of] = @ + 1]
          /\ bp_trace' = Append(bp_trace, <<"optimizer.step", k>>)
          /\ BpLoop("bp_optimizers", k)
    /\ UNCHANGED <<config, info, error, gdf, models, loaded, schedulers, grads, calls,
                   fp_calls, graph, bp_update, grad_norm, bp_pre, micro, pn_vars>>

\* Lines 261-262: schedulers_dict[k].step().
BpSchedulerStep ==
    /\ pc = "bp_schedulers"
    /\ \E k \in bp_todo :
          /\ schedulers' = <<[schedulers[1] EXCEPT ![k].last_epoch = @ + 1]>>
          /\ bp_trace' = Append(bp_trace, <<"scheduler.step", k>>)
          /\ BpLoop("bp_schedulers", k)
    /\ UNCHANGED <<config, info, error, gdf, models, loaded, optimizers, params, grads,
                   calls, fp_calls, graph, bp_update, grad_norm, bp_pre, micro,
                   pn_vars>>

\* Lines 263-264: optimizers_dict[k].zero_grad(set_to_none=True).
BpZeroGrad ==
    /\ pc = "bp_zero_grad"
    /\ \E k \in bp_todo :
          /\ grads' = [grads EXCEPT ![optimizers[1][k].params_of] = NoGrad]
          /\ bp_trace' = Append(bp_trace, <<"zero_grad", k>>)
          /\ BpLoop("bp_zero_grad", k)
    /\ UNCHANGED <<config, info, error, gdf, models, loaded, optimizers, schedulers,
                   params, calls, fp_calls, graph, bp_update, grad_norm, bp_pre, micro,
                   pn_vars>>

\* Line 265: self.info.total_steps += 1.
BpTotalSteps ==
    /\ pc = "bp_total_steps"
    /\ info' = [info EXCEPT !.total_steps = @ + 1]
    /\ bp_trace' = Append(bp_trace, <<"total_steps", "+1">>)
    /\ pc' = BpAfter("bp_total_steps")
    /\ UNCHANGED <<config, error, gdf, models, loaded, optimizers, schedulers, params,
                   grads, calls, fp_calls, graph, bp_update, bp_todo, grad_norm,
                   bp_pre, micro, pn_vars>>

\* Lines 267-268: with models.generator.no_sync(): loss_adjusted.backward().
BpNoSyncBackward ==
    /\ pc = "bp_no_sync"
    /\ grads' = Backward(grads)
    /\ bp_trace' = Append(bp_trace, <<"backward", "no_sync">>)
    /\ pc' = BpAfter("bp_no_sync")
    /\ UNCHANGED <<config, info, error, gdf, models, loaded, optimizers, schedulers,
                   params, calls, fp_calls, graph, bp_update, bp_todo, grad_norm,
                   bp_pre, micro, pn_vars>>

\* Line 270: return grad_norm. Reading the local before line 256 has bound it
\* raises UnboundLocalError, which leaves backward_pass and ends the run.
BpReturn ==
    /\ pc = "bp_return"
    /\ IF grad_norm = "unbound"
       THEN /\ error' = <<"UnboundLocalError">>
            /\ pc' = "aborted"
       ELSE /\ pc' = "backward_done"
            /\ UNCHANGED error
    /\ UNCHANGED <<config, info, gdf, models, loaded, optimizers, schedulers, params,
                   grads, calls, fp_calls, graph, bp_update, bp_todo, bp_trace,
                   grad_norm, bp_pre, micro, pn_vars>>

\* The training loop after backward_pass has returned: after an update the EMA
\* shadow, when there is one, is moved towards the generator; then the next
\* iteration.
TrainLoopNext ==
    /\ pc = "backward_done"
    /\ params' = IF bp_update /\ models[1].generator_ema # None
                 THEN [params EXCEPT !["generator_ema"] = @ + 1]
                 ELSE params
    /\ micro' = IF bp_update THEN 0 ELSE micro + 1
    /\ pc' = "loop"
    /\ UNCHANGED <<config, info, error, gdf, models, loaded, optimizers, schedulers,
                   grads, calls, fp_calls, graph, bp_update, bp_todo, bp_trace,
                   grad_norm, bp_pre, pn_vars>>

Init ==
    /\ PyramidOff
    /\ pc = "start"
    /\ config \in Configs
    /\ info \in Infos
    /\ error = None
    /\ gdf = None
    /\ models = None
    /\ loaded = <<>>
    /\ optimizers = None
    /\ schedulers = None
    /\ params = [m \in ModelNames |-> 0]
    /\ grads = [m \in ModelNames |-> NoGrad]
    /\ calls = [h \in {"setup_extras_pre", "setup_models", "setup_optimizers",
                       "setup_schedulers", "forward_pass", "backward_pass"} |-> 0]
    /\ fp_calls = <<>>
    /\ graph = {}
    /\ bp_update = FALSE
    /\ bp_todo = {}
    /\ bp_trace = <<>>
    /\ grad_norm = "unbound"
    /\ bp_pre = None
    /\ micro = 0

Next ==
    \/ SetupExtrasPre
    \/ SetupModels
    \/ SetupOptimizers
    \/ SetupSchedulers
    \/ ForwardPass
    \/ BackwardCall
    \/ BpBackward
    \/ BpClip
    \/ BpOptimizerStep
    \/ BpSchedulerStep
    \/ BpZeroGrad
    \/ BpTotalSteps
    \/ BpNoSyncBackward
    \/ BpReturn
    \/ TrainLoopNext

Spec == Init /\ [][Next]_vars

InitPyramid ==
    /\ RunOff
    /\ pn_pc = "call"
    /\ pn_args \in PyramidArgs
    /\ level_i = 0
    /\ multipliers = <<>>
    /\ epsilon = <<>>
    /\ pn_visited = <<>>
    /\ pn_divisor = 0

NextPyramid ==
    \/ PyramidEnter
    \/ PyramidLevel
    \/ PyramidLoopEnd
    \/ PyramidReturn

SpecPyramid == InitPyramid /\ [][NextPyramid]_vars

(* ------------------------------- claims ------------------------------- *)

BpRank(e) ==
    CASE e[1] = "backward" -> 1
      [] e[1] = "clip_grad_norm_" -> 2
      [] e[1] = "optimizer.step" -> 3
      [] e[1] = "scheduler.step" -> 4
      [] e[1] = "zero_grad" -> 5
      [] e[1] = "total_steps" -> 6

Traced(e) == \E k \in 1..Len(bp_trace) : bp_trace[k] = e

TracedOnce(e) == Cardinality({k \in 1..Len(bp_trace) : bp_trace[k] = e}) = 1

\* C1: a backward_pass call with update=true propagates gradients, clips the
\* generator's gradient norm to 1.0, steps every optimizer, steps every scheduler,
\* zeroes the gradients of every optimizer and then adds exactly 1 to
\* info.total_steps, in this order: no optimizer steps before the clipping, and
\* no gradient is zeroed before every optimizer and every scheduler has stepped.
C1_UpdateOrder ==
    (bp_update /\ bp_pre # None) =>
        /\ \A a, b \in 1..Len(bp_trace) :
              a < b => BpRank(bp_trace[a]) <= BpRank(bp_trace[b])
        /\ \A k \in 1..Len(bp_trace) :
              /\ BpRank(bp_trace[k]) >= 2 => Traced(<<"backward", "sync">>)
              /\ BpRank(bp_trace[k]) >= 3 => Traced(<<"clip_grad_norm_", "generator">>)
              /\ BpRank(bp_trace[k]) >= 5 =>
                    /\ \A o \in DOMAIN optimizers[1] : Traced(<<"optimizer.step", o>>)
                    /\ \A c \in DOMAIN schedulers[1] : Traced(<<"scheduler.step", c>>)
              /\ BpRank(bp_trace[k]) >= 6 =>
                    \A o \in DOMAIN optimizers[1] : Traced(<<"zero_grad", o>>)
        /\ pc = "bp_optimizers" =>
              /\ grads["generator"].max_norm = <<1>>
              /\ grads["generator"].accum = bp_pre[1].grads["generator"].accum + 1
        /\ pc \in {"bp_return", "backward_done"} =>
              /\ TracedOnce(<<"backward", "sync">>)
              /\ TracedOnce(<<"clip_grad_norm_", "generator">>)
              /\ \A o \in DOMAIN optimizers[1] :
                    /\ TracedOnce(<<"optimizer.step", o>>)
                    /\ TracedOnce(<<"zero_grad", o>>)
                    /\ optimizers[1][o].n_steps = bp_pre[1].optimizers[1][o].n_steps + 1
              /\ \A c \in DOMAIN schedulers[1] :
                    /\ TracedOnce(<<"scheduler.step", c>>)
                    /\ schedulers[1][c].last_epoch
                           = bp_pre[1].schedulers[1][c].last_epoch + 1
              /\ bp_trace[Len(bp_trace)] = <<"total_steps", "+1">>
              /\ TracedOnce(<<"total_steps", "+1">>)
              /\ info.total_steps = bp_pre[1].total_steps + 1
              /\ grads["generator"] = NoGrad

C1_Witness ==
    /\ pc = "backward_done"
    /\ bp_update
    /\ Len(bp_trace) = 6
    /\ info.total_steps = bp_pre[1].total_steps + 1

InRange(size_range, d) == size_range[1] <= d /\ d <= size_range[2]

\* C3: with a size_range, a level i adds noise only if both its shrunk height
\* H // 2^i and its shrunk width W // 2^i lie inside the range.
C3_AddsOnlyInsideRange ==
    pn_args.size_range # None =>
        \A k \in 1..Len(epsilon) :
            epsilon[k].level >= 1 =>
                /\ InRange(pn_args.size_range, Shrunk(pn_args.H, epsilon[k].level))
                /\ InRange(pn_args.size_range, Shrunk(pn_args.W, epsilon[k].level))

\* C4: _pyramid_noise visits the levels 1, 2, ... in increasing order, at most
\* levels - 1 of them, and none after the first level at which H // 2^i or
\* W // 2^i is <= 1.
C4_StopsAtFirstSmallLevel ==
    /\ Len(pn_visited) <= pn_args.levels - 1
    /\ \A k \in 1..Len(pn_visited) : pn_visited[k] = k
    /\ \A a, b \in 1..Len(pn_visited) :
          a < b => ~(\/ Shrunk(pn_args.H, pn_visited[a]) <= 1
                     \/ Shrunk(pn_args.W, pn_visited[a]) <= 1)

RECURSIVE SumOverLevels(_, _)
\* The sum of (0.75^i)^2 = 9^i / 16^i over the levels i of S, over 16^n.
SumOverLevels(S, n) ==
    IF S = {} THEN 0
    ELSE LET i == CHOOSE x \in S : TRUE
         IN Pow(9, i) * Pow(16, n - i) + SumOverLevels(S \ {i}, n)

\* The levels whose noise the returned epsilon holds.
AccumulatedLevels == {epsilon[k].level : k \in 2..Len(epsilon)}

\* C5: when _pyramid_noise returns, the divisor is the square root of the sum of
\* the squares of 1 and of 0.75^i for each level i whose noise was accumulated,
\* each once; a skipped level and a level never reached add nothing to it.
C5_DivisorOfAccumulated ==
    pn_pc = "done" =>
        /\ Cardinality(AccumulatedLevels) = Len(epsilon) - 1
        /\ pn_divisor = Pow(16, pn_args.levels)
                        + SumOverLevels(AccumulatedLevels, pn_args.levels)

C5_Witness ==
    /\ pn_pc = "done"
    /\ Len(epsilon) >= 2
    /\ Len(pn_visited) > Len(epsilon) - 1
    /\ Len(pn_visited) < pn_args.levels - 1

GeneratorLoads ==
    {"generator_checkpoint_path", "load_model:generator", "generator.state_dict",
     "load_model:generator_ema"}

C7_SnapshotRestored ==
    (gdf # None /\ calls["forward_pass"] = 0) =>
        LET loss_weight == gdf[1].loss_weight
        IN IF info.adaptive_loss # None
           THEN /\ loss_weight.bucket_ranges = <<info.adaptive_loss[1].bucket_ranges>>
                /\ loss_weight.bucket_losses = <<info.adaptive_loss[1].bucket_losses>>
           ELSE IF config.adaptive_loss_weight
           THEN /\ loss_weight.bucket_ranges = <<FreshBuckets.bucket_ranges>>
                /\ loss_weight.bucket_losses = <<FreshBuckets.bucket_losses>>
           ELSE /\ loss_weight.bucket_ranges = None
                /\ loss_weight.bucket_losses = None

C7_Witness ==
    /\ pc = "extras"
    /\ info.adaptive_loss # None
    /\ Len(info.adaptive_loss[1].bucket_ranges) = 3
    /\ info.adaptive_loss[1].bucket_losses = <<2, 4>>
    /\ gdf[1].loss_weight.bucket_losses = <<<<2, 4>>>>

StepPcs ==
    {"loop", "forward_done", "bp_backward", "bp_clip", "bp_optimizers",
     "bp_schedulers", "bp_zero_grad", "bp_total_steps", "bp_no_sync", "bp_return"}

C8_Frozen ==
    /\ models # None =>
          /\ (models[1].generator_ema # None) <=> (config.ema_start_iters # None)
          /\ models[1].generator_ema # None =>
                /\ models[1].generator_ema[1].class = models[1].generator.class
                /\ ~models[1].generator_ema[1].requires_grad
    /\ optimizers # None =>
          /\ DOMAIN optimizers[1] = {"generator"}
          /\ \A k \in DOMAIN optimizers[1] : optimizers[1][k].params_of = "generator"
    /\ grads["generator_ema"] = NoGrad

C8_StepLeavesEma ==
    pc \in StepPcs => params'["generator_ema"] = params["generator_ema"]

\* C8: whenever generator_ema exists (config.ema_start_iters is not None) it is
\* of the generator's class and frozen, the only optimizer is bound to the
\* generator's parameters, the EMA shadow holds no gradient, and no step of
\* forward_pass or backward_pass changes the EMA shadow's parameters.
C8_EmaUntouched == []C8_Frozen /\ [][C8_StepLeavesEma]_vars

C8_Witness ==
    /\ pc = "backward_done"
    /\ bp_update
    /\ models[1].generator_ema # None
    /\ params["generator"] = 2
    /\ params["generator_ema"] = 1

\* C9 as stated: in every forward_pass the five diffusion components are called
\* only by the GDF or by the pyramid noise generator, never by forward_pass.
C9_OnlyThroughGdf ==
    \A k \in 1..Len(fp_calls) :
        fp_calls[k].callee \in DiffusionComponents =>
            fp_calls[k].caller \in {"gdf", "pyramid_noise"}

\* C9, amended: the one call forward_pass makes on one of the five components is
\* update_buckets on the loss-weight policy, made after gdf.diffuse and only
\* when the policy is an AdaptiveLossWeight; every other call on them is the
\* GDF's or the pyramid noise generator's.
C9_OnlyUpdateBucketsDirect ==
    \A k \in 1..Len(fp_calls) :
        fp_calls[k].callee \in DiffusionComponents =>
            \/ fp_calls[k].caller \in {"gdf", "pyramid_noise"}
            \/ /\ fp_calls[k] = Call("forward_pass", "loss_weight", "update_buckets")
               /\ gdf[1].loss_weight.kind = "AdaptiveLossWeight"
               /\ \E d \in 1..(k - 1) : fp_calls[d] = Call("forward_pass", "gdf", "diffuse")

C9_Witness ==
    /\ pc = "forward_done"
    /\ gdf[1].loss_weight.kind = "AdaptiveLossWeight"
    /\ \E k \in 1..Len(fp_calls) :
          fp_calls[k] = Call("forward_pass", "loss_weight", "update_buckets")

\* C10: every backward_pass call, with update=true and with update=false,
\* returns a gradient norm to its caller without raising an error.
C10_BackwardPassReturns ==
    calls["backward_pass"] > 0 => error = None

====
